---- MODULE Spec2Model ----
(***************************************************************************)
(* django-viewsets: the router (viewsets/routers.py) and the @action       *)
(* decorator with the class-level action list (viewsets/viewsets.py).      *)
(*                                                                         *)
(* A Python string is a sequence of one-character strings, so that         *)
(* str.format, str.lower, str.replace and slicing are computed character   *)
(* by character.  A format template is a sequence whose elements are       *)
(* literal characters or replacement fields such as "{prefix}".  Classes   *)
(* and exception types are identified by their names.  A call either       *)
(* returns a value or raises: [exc |-> "", val |-> v] is a return of v,    *)
(* [exc |-> "NameError", val |-> <<>>] is a raise.                         *)
(***************************************************************************)
EXTENDS Naturals, Sequences, FiniteSets

\* ------------------------------------------------------------- bounds
\* The registry holds at most MaxRegistry entries.
MaxRegistry == 2
\* At most MaxBuilds route builds are attempted between two register calls.
MaxBuilds == 2
\* The action list holds at most MaxActions descriptors.
MaxActions == 2

\* ------------------------------------------------------------ strings
\* Python's None: a value that is no character string.
None == <<"None">>

s_empty == <<>>
s_slash == <<"/">>
s_pk == <<"p", "k">>
s_widgets == <<"w", "i", "d", "g", "e", "t", "s">>
s_widget == <<"w", "i", "d", "g", "e", "t">>
s_Blog == <<"B", "l", "o", "g">>
s_List == <<"L", "i", "s", "t">>
s_activate == <<"a", "c", "t", "i", "v", "a", "t", "e">>
s_set_pw == <<"s", "e", "t", "_", "p", "w">>
s_Go == <<"G", "o">>
s_doc == <<"D", "o", "c">>
s_get == <<"g", "e", "t">>
s_slug == <<"s", "l", "u", "g">>
s_id == <<"i", "d">>
s_digits == <<"[", "0", "-", "9", "]", "+">>
s_nested == <<"n", "_">>
s_Instance == <<"I", "n", "s", "t", "a", "n", "c", "e">>

Uppers == <<"A", "B", "C", "D", "E", "F", "G", "H", "I", "J", "K", "L", "M",
            "N", "O", "P", "Q", "R", "S", "T", "U", "V", "W", "X", "Y", "Z">>
Lowers == <<"a", "b", "c", "d", "e", "f", "g", "h", "i", "j", "k", "l", "m",
            "n", "o", "p", "q", "r", "s", "t", "u", "v", "w", "x", "y", "z">>

lower_char(c) ==
    IF \E i \in DOMAIN Uppers : Uppers[i] = c
    THEN Lowers[CHOOSE i \in DOMAIN Uppers : Uppers[i] = c]
    ELSE c

upper_char(c) ==
    IF \E i \in DOMAIN Lowers : Lowers[i] = c
    THEN Uppers[CHOOSE i \in DOMAIN Lowers : Lowers[i] = c]
    ELSE c

\* str.lower()
str_lower(s) == [i \in 1..Len(s) |-> lower_char(s[i])]

\* str.replace(old, new) for one-character old and new
str_replace(s, old, new) == [i \in 1..Len(s) |-> IF s[i] = old THEN new ELSE s[i]]

\* str.capitalize(): first character upper-cased, the rest lower-cased
str_capitalize(s) ==
    [i \in 1..Len(s) |-> IF i = 1 THEN upper_char(s[i]) ELSE lower_char(s[i])]

\* str.format(**env): every replacement field is replaced by its value
RECURSIVE str_format(_, _)
str_format(template, env) ==
    IF template = <<>> THEN <<>>
    ELSE LET head == template[1]
         IN  (IF head \in DOMAIN env THEN env[head] ELSE <<head>>)
             \o str_format(Tail(template), env)

\* dict.update(): the keys of e override those of d
dict_update(d, e) ==
    [k \in DOMAIN d \cup DOMAIN e |-> IF k \in DOMAIN e THEN e[k] ELSE d[k]]

Return(v) == [exc |-> "", val |-> v]
Raise(e) == [exc |-> e, val |-> <<>>]

\* ------------------------------------------------------------ classes
\* The classes get_lookup_regex is given: viewsets that set the lookup
\* attributes it reads (SlugViewSet, KwargViewSet, EmptyKwargViewSet, which
\* inherits a lookup_field and sets an empty lookup_url_kwarg), and PlainView,
\* a class that derives from object and sets none of them.
LookupClasses ==
    {"PlainView", "SimpleViewSet", "BlogViewSet", "SlugViewSet", "KwargViewSet",
     "EmptyKwargViewSet"}

\* The viewset classes: the three of viewsets.py, the test's SimpleViewSet,
\* and BlogViewSet, the router docstring's example of a viewset registered
\* without a basename (a model viewset: it has a queryset, whose
\* model._meta.object_name is 'Blog').
ViewSetClasses ==
    {"ViewSetMixin", "ViewSet", "ModelViewSet", "SimpleViewSet", "BlogViewSet"}

\* The base class of each class; "object" ends the chain.
class_base(cls) ==
    CASE cls = "ViewSet" -> "ViewSetMixin"
      [] cls = "ModelViewSet" -> "ViewSetMixin"
      [] cls = "SimpleViewSet" -> "ViewSet"
      [] cls = "BlogViewSet" -> "ModelViewSet"
      [] cls = "SlugViewSet" -> "ViewSet"
      [] cls = "KwargViewSet" -> "ViewSet"
      [] cls = "EmptyKwargViewSet" -> "SlugViewSet"
      [] OTHER -> "object"

\* The attributes a class body assigns (methods left out).  The value of
\* queryset stands for queryset.model._meta.object_name.
class_dict(cls) ==
    CASE cls = "ViewSetMixin" ->
             [lookup_field |-> s_pk, _actions |-> <<>>, base_path |-> s_empty]
      [] cls = "SimpleViewSet" -> [template_path_base |-> s_empty]
      [] cls = "BlogViewSet" -> [queryset |-> s_Blog]
      [] cls = "SlugViewSet" -> [lookup_field |-> s_slug]
      [] cls = "KwargViewSet" ->
             [lookup_url_kwarg |-> s_id, lookup_value_regex |-> s_digits]
      [] cls = "EmptyKwargViewSet" -> [lookup_url_kwarg |-> s_empty]
      [] OTHER -> <<>>

\* The class whose body defines attr, found along the bases; "object" if none.
RECURSIVE attr_owner(_, _)
attr_owner(cls, attr) ==
    IF cls = "object" THEN "object"
    ELSE IF attr \in DOMAIN class_dict(cls) THEN cls
    ELSE attr_owner(class_base(cls), attr)

\* getattr(cls, attr, default)
getattr(cls, attr, default) ==
    LET owner == attr_owner(cls, attr)
    IN  IF owner = "object" THEN default ELSE class_dict(owner)[attr]

\* ----------------------------------------------------------- the state
VARIABLES
    router_class,    \* "BaseRouter" or "SimpleRouter": the class of the router
    trailing_slash,  \* SimpleRouter.trailing_slash: '/' or ''
    registry,        \* router.registry: the list of (prefix, viewset, basename)
    has_urls,        \* hasattr(router, '_urls')
    _urls,           \* router._urls, when has_urls
    _actions,        \* the _actions list of each class whose body defines one
    get_urls_calls,  \* calls of get_urls since the last call of register
    result,          \* the last router call: its arguments and its outcome
    decoration,      \* the last use of @action: its arguments and its outcome
    threads,         \* the threads reading urls: where each is, what it holds
    urls_id,         \* the list object _urls refers to: the thread that built it
    class_routes,    \* the routes attribute of the router's class
    probe            \* the last step of the route builder: arguments and outcome

vars == <<router_class, trailing_slash, registry, has_urls, _urls, _actions,
          get_urls_calls, result, decoration, threads, urls_id, class_routes, probe>>

thread_vars == <<threads, urls_id>>

builder_vars == <<class_routes, probe>>

router_vars == <<router_class, trailing_slash, registry, has_urls, _urls,
                 get_urls_calls, result>>

\* ------------------------------------------------------------- routers
\* SimpleRouter.routes: the one built-in template, the list route.
routes ==
    << [url |-> <<"^", "{prefix}", "{trailing_slash}", "$">>,
        name |-> <<"{basename}", "-", "l", "i", "s", "t">>,
        detail |-> FALSE,
        initkwargs |-> [suffix |-> s_List]] >>

BaseRouter_get_default_basename(viewset) == Raise("NotImplementedError")

\* The assert fails when the viewset has no queryset attribute.  (Run with
\* asserts stripped, None.model raises AttributeError at the same place.)
SimpleRouter_get_default_basename(viewset) ==
    LET queryset == getattr(viewset, "queryset", None)
    IN  IF queryset = None THEN Raise("AssertionError")
        ELSE Return(str_lower(queryset))

get_default_basename(viewset) ==
    IF router_class = "SimpleRouter"
    THEN SimpleRouter_get_default_basename(viewset)
    ELSE BaseRouter_get_default_basename(viewset)

\* get_routes reads the name flatten, which routers.py neither defines nor
\* imports: the call raises NameError before anything else is evaluated.
get_routes(viewset) == Raise("NameError")

\* A get_lookup_regex that names the group after lookup_field always.
get_lookup_regex_ignores_url_kwarg(viewset, lookup_prefix) ==
    <<"(", "?", "P", "<">> \o lookup_prefix \o getattr(viewset, "lookup_field", s_pk)
        \o <<">">> \o getattr(viewset, "lookup_value_regex",
                               <<"[", "^", "/", ".", "]", "+">>) \o <<")">>

get_lookup_regex(viewset, lookup_prefix) ==
    LET lookup_field == getattr(viewset, "lookup_field", s_pk)
        kwarg == getattr(viewset, "lookup_url_kwarg", None)
        lookup_url_kwarg == IF kwarg = None \/ kwarg = <<>> THEN lookup_field ELSE kwarg
        lookup_value == getattr(viewset, "lookup_value_regex",
                                <<"[", "^", "/", ".", "]", "+">>)
    IN  str_format(<<"(", "?", "P", "<", "{lookup_prefix}", "{lookup_url_kwarg}",
                     ">", "{lookup_value}", ")">>,
                   [k \in {"{lookup_prefix}", "{lookup_url_kwarg}", "{lookup_value}"} |->
                       CASE k = "{lookup_prefix}" -> lookup_prefix
                         [] k = "{lookup_url_kwarg}" -> lookup_url_kwarg
                         [] OTHER -> lookup_value])

\* A route_regex that keeps the slash after '^' whatever the prefix.
route_regex_keeps_slash(prefix, lookup, route) ==
    str_format(route.url,
               [k \in {"{prefix}", "{lookup}", "{trailing_slash}"} |->
                   CASE k = "{prefix}" -> prefix
                     [] k = "{lookup}" -> lookup
                     [] OTHER -> trailing_slash])

\* The regex of one route of one registry entry (get_urls, lines 165-176).
route_regex(prefix, lookup, route) ==
    LET regex == str_format(route.url,
                     [k \in {"{prefix}", "{lookup}", "{trailing_slash}"} |->
                         CASE k = "{prefix}" -> prefix
                           [] k = "{lookup}" -> lookup
                           [] OTHER -> trailing_slash])
    IN  IF prefix = <<>> /\ SubSeq(regex, 1, 2) = <<"^", "/">>
        THEN <<"^">> \o SubSeq(regex, 3, Len(regex))
        ELSE regex

\* The body of the loop over the routes (get_urls, lines 164-186).  The call
\* viewset.as_view(mapping, **initkwargs) looks up as_view on the viewset,
\* which no class of viewsets.py defines (AttributeError), and then reads the
\* name mapping, which get_urls never binds (NameError).
\* initkwargs = route.initkwargs.copy(); initkwargs.update({...}) (get_urls,
\* lines 178-182): the merged options, and the template as the two
\* statements leave it.  The update writes the copy, not the template.
merge_initkwargs_without_copy(route, basename) ==
    LET merged == dict_update(route.initkwargs,
                              [basename |-> basename, detail |-> route.detail])
    IN  [initkwargs |-> merged, route |-> [route EXCEPT !.initkwargs = merged]]

merge_initkwargs(route, basename) ==
    [initkwargs |-> dict_update(route.initkwargs,
                                [basename |-> basename, detail |-> route.detail]),
     route |-> route]

route_pattern(prefix, viewset, basename, lookup, route) ==
    LET regex == route_regex(prefix, lookup, route)
        initkwargs == merge_initkwargs(route, basename).initkwargs
    IN  IF attr_owner(viewset, "as_view") = "object" THEN Raise("AttributeError")
        ELSE Raise("NameError")

RECURSIVE routes_loop(_, _, _, _, _)
routes_loop(entry, lookup, rts, j, ret) ==
    IF j > Len(rts) THEN Return(ret)
    ELSE LET pattern == route_pattern(entry.prefix, entry.viewset, entry.basename,
                                      lookup, rts[j])
         IN  IF pattern.exc # "" THEN pattern
             ELSE routes_loop(entry, lookup, rts, j + 1, Append(ret, pattern.val))

RECURSIVE get_urls_loop(_, _)
get_urls_loop(i, ret) ==
    IF i > Len(registry) THEN Return(ret)
    ELSE LET entry == registry[i]
             lookup == get_lookup_regex(entry.viewset, s_empty)
             rts == get_routes(entry.viewset)
         IN  IF rts.exc # "" THEN rts
             ELSE LET block == routes_loop(entry, lookup, rts.val, 1, ret)
                  IN  IF block.exc # "" THEN block
                      ELSE get_urls_loop(i + 1, block.val)

SimpleRouter_get_urls == get_urls_loop(1, <<>>)

\* A base router whose get_urls returns an empty table instead of raising.
BaseRouter_get_urls_returns_empty == Return(<<>>)

BaseRouter_get_urls == Raise("NotImplementedError")

get_urls ==
    IF router_class = "SimpleRouter" THEN SimpleRouter_get_urls
    ELSE BaseRouter_get_urls

\* ---------------------------------------------------- router operations
Prefixes == {s_empty, s_widgets}
Basenames == {None, s_widget}
RegisteredViewSets == {"SimpleViewSet", "BlogViewSet"}

NoCall ==
    [op |-> "init", args |-> [prefix |-> s_empty, viewset |-> "", basename |-> None],
     exc |-> "", value |-> <<>>, derived |-> FALSE, built |-> FALSE]

\* A register that appends the entry and drops the cache first, and derives
\* the missing basename afterwards.
register_appends_before_deriving(prefix, viewset, basename) ==
    LET default == IF basename = None THEN get_default_basename(viewset)
                   ELSE Return(basename)
    IN  /\ Len(registry) < MaxRegistry
        /\ registry' = Append(registry, [prefix |-> prefix, viewset |-> viewset,
                                         basename |-> IF default.exc = "" THEN default.val
                                                      ELSE basename])
        /\ has_urls' = FALSE
        /\ _urls' = <<>>
        /\ result' = [op |-> "register",
                      args |-> [prefix |-> prefix, viewset |-> viewset,
                                basename |-> basename],
                      exc |-> default.exc, value |-> <<>>,
                      derived |-> (basename = None), built |-> FALSE]
        /\ get_urls_calls' = 0
        /\ UNCHANGED <<router_class, trailing_slash, _actions, decoration, thread_vars, builder_vars>>

\* A register that derives the basename even when one is given.
register_always_derives(prefix, viewset, basename) ==
    LET default == get_default_basename(viewset)
    IN  /\ default.exc = "" => Len(registry) < MaxRegistry
        /\ IF default.exc # ""
           THEN UNCHANGED <<registry, has_urls, _urls>>
           ELSE /\ registry' = Append(registry, [prefix |-> prefix, viewset |-> viewset,
                                                 basename |-> default.val])
                /\ has_urls' = FALSE
                /\ _urls' = <<>>
        /\ result' = [op |-> "register",
                      args |-> [prefix |-> prefix, viewset |-> viewset,
                                basename |-> basename],
                      exc |-> default.exc, value |-> <<>>,
                      derived |-> TRUE, built |-> FALSE]
        /\ get_urls_calls' = 0
        /\ UNCHANGED <<router_class, trailing_slash, _actions, decoration, thread_vars, builder_vars>>

\* BaseRouter.register: the basename is derived before anything is written.
\* A register that appends and leaves the cached table where it is.
register_keeps_cache(prefix, viewset, basename) ==
    LET default == IF basename = None THEN get_default_basename(viewset)
                   ELSE Return(basename)
        call == [op |-> "register",
                 args |-> [prefix |-> prefix, viewset |-> viewset, basename |-> basename],
                 exc |-> default.exc, value |-> <<>>, derived |-> (basename = None),
                 built |-> FALSE]
    IN  /\ default.exc = "" => Len(registry) < MaxRegistry
        /\ IF default.exc # "" THEN UNCHANGED registry
           ELSE registry' = Append(registry, [prefix |-> prefix, viewset |-> viewset,
                                              basename |-> default.val])
        /\ result' = call
        /\ get_urls_calls' = 0
        /\ UNCHANGED <<router_class, trailing_slash, has_urls, _urls, _actions,
                       decoration, thread_vars, builder_vars>>

register(prefix, viewset, basename) ==
    LET default == IF basename = None THEN get_default_basename(viewset)
                   ELSE Return(basename)
        call == [op |-> "register",
                 args |-> [prefix |-> prefix, viewset |-> viewset, basename |-> basename],
                 exc |-> default.exc, value |-> <<>>,
                 derived |-> (basename = None), built |-> FALSE]
    IN  /\ default.exc = "" => Len(registry) < MaxRegistry
        /\ IF default.exc # ""
           THEN UNCHANGED <<registry, has_urls, _urls>>
           ELSE /\ registry' = Append(registry, [prefix |-> prefix, viewset |-> viewset,
                                                 basename |-> default.val])
                /\ has_urls' = FALSE
                /\ _urls' = <<>>
        /\ result' = call
        /\ get_urls_calls' = 0
        /\ UNCHANGED <<router_class, trailing_slash, _actions, decoration, thread_vars, builder_vars>>

\* A urls property that calls get_urls on every read.
urls_always_builds ==
    LET built == get_urls
    IN  /\ get_urls_calls < MaxBuilds
        /\ IF built.exc = ""
           THEN has_urls' = TRUE /\ _urls' = built.val
           ELSE UNCHANGED <<has_urls, _urls>>
        /\ get_urls_calls' = get_urls_calls + 1
        /\ result' = [op |-> "urls", args |-> NoCall.args, exc |-> built.exc,
                      value |-> built.val, derived |-> FALSE, built |-> TRUE]
        /\ UNCHANGED <<router_class, trailing_slash, registry, _actions, decoration,
                       thread_vars, builder_vars>>

\* The urls property: get_urls is called only when no _urls attribute exists,
\* and the attribute is set only when get_urls returns.
\* A urls that keeps an empty table as the cache when the build raises.
urls_caches_failed_build ==
    LET built == IF has_urls THEN Return(_urls) ELSE get_urls
        call == [op |-> "urls", args |-> NoCall.args, exc |-> built.exc,
                 value |-> built.val, derived |-> FALSE, built |-> ~has_urls]
    IN  /\ ~has_urls => get_urls_calls < MaxBuilds
        /\ has_urls' = TRUE
        /\ _urls' = built.val
        /\ get_urls_calls' = IF has_urls THEN get_urls_calls ELSE get_urls_calls + 1
        /\ result' = call
        /\ UNCHANGED <<router_class, trailing_slash, registry, _actions, decoration,
                       thread_vars, builder_vars>>

urls ==
    LET built == IF has_urls THEN Return(_urls) ELSE get_urls
        call == [op |-> "urls", args |-> NoCall.args, exc |-> built.exc,
                 value |-> built.val, derived |-> FALSE, built |-> ~has_urls]
    IN  /\ ~has_urls => get_urls_calls < MaxBuilds
        /\ IF ~has_urls /\ built.exc = ""
           THEN has_urls' = TRUE /\ _urls' = built.val
           ELSE UNCHANGED <<has_urls, _urls>>
        /\ get_urls_calls' = IF has_urls THEN get_urls_calls ELSE get_urls_calls + 1
        /\ result' = call
        /\ UNCHANGED <<router_class, trailing_slash, registry, _actions, decoration,
                       thread_vars, builder_vars>>

\* ------------------------------------------------------------- @action
\* The decorator and the class attributes are modelled as written.  (As a
\* file viewsets.py does not compile: the list in ViewSetMixin.get_urls, lines
\* 190-197, is no Python expression.  That method is not modelled.)
\* django.forms.utils.pretty_name: 'first_name' becomes 'First name'.
pretty_name(name) ==
    IF name = <<>> THEN <<>> ELSE str_capitalize(str_replace(name, "_", " "))

truthy(s) == s # None /\ s # <<>>

\* What the decorator writes on func (viewsets.py, lines 93-100).
descriptor(func, opts) ==
    LET kwargs == IF "name" \in DOMAIN opts.kwargs THEN opts.kwargs
                  ELSE dict_update(opts.kwargs, [name |-> pretty_name(func.name)])
    IN  [name |-> func.name,
         doc |-> func.doc,
         detail |-> opts.detail,
         url_path |-> IF truthy(opts.url_path) THEN opts.url_path ELSE func.name,
         url_name |-> IF truthy(opts.url_name) THEN opts.url_name
                      ELSE str_replace(func.name, "_", "-"),
         kwargs |-> dict_update(kwargs, [description |-> func.doc])]

\* The decorated objects.  kind "function": a function in a class body (the
\* documented use); it has no __self__.  kind "method": a bound method; it
\* takes no new attributes.  kind "callable": a callable object that takes
\* attributes and whose __self__ is an instance of cls.
FuncKinds == {"function", "method", "callable"}
Handlers == {[name |-> s_activate, doc |-> None], [name |-> s_set_pw, doc |-> s_doc]}
DecoratedClasses == {"ViewSet", "SimpleViewSet", "BlogViewSet"}
Funcs ==
    {[kind |-> k, name |-> h.name, doc |-> h.doc, cls |-> c] :
        k \in FuncKinds, h \in Handlers, c \in DecoratedClasses}

ActionOptions ==
    {[detail |-> FALSE, url_path |-> None, url_name |-> None, kwargs |-> <<>>],
     [detail |-> TRUE, url_path |-> s_activate, url_name |-> None, kwargs |-> <<>>],
     [detail |-> FALSE, url_path |-> None, url_name |-> s_activate,
      kwargs |-> [name |-> s_Go, description |-> s_Go]]}

\* No decorator made yet.  Of a decorator, opts are the arguments action was
\* called with, kwargs is its kwargs dict as it is now, and shared are the
\* places of the action lists whose function has that very dict as kwargs.
NoDecoration ==
    [op |-> "init",
     func |-> [kind |-> "function", name |-> s_empty, doc |-> None, cls |-> "object"],
     opts |-> [detail |-> FALSE, url_path |-> None, url_name |-> None, kwargs |-> <<>>],
     exc |-> "", kwargs |-> <<>>, shared |-> {}]

\* The classes whose body defines an _actions list, and the list cls._actions
\* resolves to.
ActionListOwners == {c \in ViewSetClasses : "_actions" \in DOMAIN class_dict(c)}

list_of(lists, cls) == lists[attr_owner(cls, "_actions")]

actions_of(cls) == list_of(_actions, cls)

\* decorator(func), for the decorator that action(**opts) returned and whose
\* kwargs dict is now kwargs.  Line 93 raises for a bound method, before the
\* dict is touched.  Lines 97-100 write name and description into the dict
\* itself (func.kwargs = kwargs binds it, it does not copy it), so every
\* function that has the dict sees them.  Line 103 raises for a function
\* without __self__, after the dict was written.
apply_decorator(func, opts, kwargs, shared) ==
    LET owner == attr_owner(func.cls, "_actions")
        exc == CASE func.kind = "method" -> "AttributeError"     \* line 93
                 [] func.kind = "function" -> "AttributeError"   \* line 103
                 [] owner = "object" -> "AttributeError"         \* line 103
                 [] OTHER -> ""
        d == descriptor(func, [opts EXCEPT !.kwargs = kwargs])
        written == [o \in DOMAIN _actions |->
                       [i \in DOMAIN _actions[o] |->
                           IF <<o, i>> \in shared
                           THEN [_actions[o][i] EXCEPT !.kwargs = d.kwargs]
                           ELSE _actions[o][i]]]
    IN  /\ exc = "" => Len(_actions[owner]) < MaxActions
        /\ _actions' = CASE func.kind = "method" -> _actions
                         [] exc # "" -> written
                         [] OTHER -> [written EXCEPT ![owner] = Append(@, d)]
        /\ decoration' =
               [op |-> "action", func |-> func, opts |-> opts, exc |-> exc,
                kwargs |-> IF func.kind = "method" THEN kwargs ELSE d.kwargs,
                shared |-> IF exc = "" THEN shared \cup {<<owner, Len(_actions[owner]) + 1>>}
                           ELSE shared]
        /\ UNCHANGED <<router_vars, thread_vars, builder_vars>>

\* action(detail, url_path, url_name, **kwargs)(func)
decorate(func, opts) == apply_decorator(func, opts, opts.kwargs, {})

\* deco(func), for the decorator deco that the last call of action returned
\* and that has been applied before.
decorate_again(func) ==
    /\ decoration.op = "action"
    /\ apply_decorator(func, decoration.opts, decoration.kwargs, decoration.shared)

\* ------------------------------------------ steps of the route builder
\* The statements of get_urls and get_lookup_regex, each applied to
\* arguments of its own.
NoProbe == [fn |-> "init", args |-> <<>>, out |-> <<>>]

\* The routes of a subclass of SimpleRouter that adds a detail route with a
\* lookup group to the list route.
detail_routes ==
    routes \o
    << [url |-> <<"^", "{prefix}", "/", "{lookup}", "{trailing_slash}", "$">>,
        name |-> <<"{basename}", "-", "d", "e", "t", "a", "i", "l">>,
        detail |-> TRUE,
        initkwargs |-> [suffix |-> s_Instance]] >>

LookupPrefixes == {s_empty, s_nested}
BuilderPrefixes == {s_empty, s_widgets, s_slash}
BuilderBasenames == {s_widget, str_lower(s_Blog)}

\* router.get_lookup_regex(viewset, lookup_prefix)
lookup_step(viewset, lookup_prefix) ==
    /\ probe' = [fn |-> "get_lookup_regex",
                 args |-> [viewset |-> viewset, lookup_prefix |-> lookup_prefix],
                 out |-> get_lookup_regex(viewset, lookup_prefix)]
    /\ UNCHANGED <<router_vars, _actions, decoration, thread_vars, class_routes>>

\* One turn of the loop over the routes (get_urls, lines 164-182), for the
\* registry entry (prefix, viewset, basename) and the j-th route of the class.
route_step(prefix, viewset, basename, j) ==
    LET route == class_routes[j]
        lookup == get_lookup_regex(viewset, s_empty)
        merged == merge_initkwargs(route, basename)
    IN  /\ probe' = [fn |-> "route",
                     args |-> [prefix |-> prefix, viewset |-> viewset,
                               basename |-> basename, lookup |-> lookup,
                               route |-> route],
                     out |-> [regex |-> route_regex(prefix, lookup, route),
                              initkwargs |-> merged.initkwargs]]
        /\ class_routes' = [class_routes EXCEPT ![j] = merged.route]
        /\ UNCHANGED <<router_vars, _actions, decoration, thread_vars>>

\* ------------------------------------------- concurrent reads of urls
\* NumThreads threads read the urls property of one router.
NumThreads == 2
Threads == 1..NumThreads

\* A thread outside urls: pc is where it stands, table is the list its call
\* of get_urls returned, built says that this call returned, ret is what the
\* property returned to it (id: the thread that built the list returned).
IdleThread == [pc |-> "idle", table |-> <<>>, built |-> FALSE,
               ret |-> [exc |-> "", val |-> <<>>, id |-> 0]]

NoThreads == [t \in Threads |-> IdleThread]

\* line 65: if not hasattr(self, '_urls')
thread_check(t) ==
    /\ threads[t].pc = "idle"
    /\ threads' = [threads EXCEPT ![t].pc = IF has_urls THEN "return" ELSE "build"]
    /\ UNCHANGED <<router_vars, _actions, decoration, urls_id, builder_vars>>

\* line 66, right-hand side: self.get_urls(), which builds a list of its own
thread_build(t) ==
    LET built == get_urls
    IN  /\ threads[t].pc = "build"
        /\ threads' = [threads EXCEPT ![t] =
               IF built.exc # ""
               THEN [@ EXCEPT !.pc = "raised",
                              !.ret = [exc |-> built.exc, val |-> <<>>, id |-> 0]]
               ELSE [@ EXCEPT !.pc = "assign", !.table = built.val, !.built = TRUE]]
        /\ get_urls_calls' = get_urls_calls + 1
        /\ UNCHANGED <<router_class, trailing_slash, registry, has_urls, _urls, result,
                       _actions, decoration, urls_id, builder_vars>>

\* line 66, the assignment: self._urls = <the list built>
thread_assign(t) ==
    /\ threads[t].pc = "assign"
    /\ has_urls' = TRUE
    /\ _urls' = threads[t].table
    /\ urls_id' = t
    /\ threads' = [threads EXCEPT ![t].pc = "return"]
    /\ UNCHANGED <<router_class, trailing_slash, registry, get_urls_calls, result,
                   _actions, decoration, builder_vars>>

\* line 67: return self._urls
thread_return(t) ==
    /\ threads[t].pc = "return"
    /\ threads' = [threads EXCEPT ![t].pc = "done",
                                  ![t].ret = [exc |-> "", val |-> _urls, id |-> urls_id]]
    /\ UNCHANGED <<router_vars, _actions, decoration, urls_id, builder_vars>>

\* ------------------------------------------------------ specifications
NoActions == [c \in ActionListOwners |-> class_dict(c)._actions]

\* The action lists when the router is constructed: no viewset declares an
\* action, or one detail action 'activate' has been declared, or one list
\* action whose handler is named 'get', as the handler of the HTTP verb is.
DeclaredActions ==
    {NoActions,
     [NoActions EXCEPT !["ViewSetMixin"] =
         <<descriptor([kind |-> "callable", name |-> s_activate, doc |-> None,
                       cls |-> "SimpleViewSet"],
                      [detail |-> TRUE, url_path |-> s_activate, url_name |-> None,
                       kwargs |-> <<>>])>>],
     [NoActions EXCEPT !["ViewSetMixin"] =
         <<descriptor([kind |-> "callable", name |-> s_get, doc |-> None,
                       cls |-> "SimpleViewSet"],
                      [detail |-> FALSE, url_path |-> None, url_name |-> None,
                       kwargs |-> <<>>])>>]}

\* BaseRouter.__init__ and SimpleRouter.__init__
Init ==
    /\ router_class \in {"BaseRouter", "SimpleRouter"}
    /\ trailing_slash \in (IF router_class = "SimpleRouter" THEN {s_slash, s_empty}
                           ELSE {s_empty})
    /\ registry = <<>>
    /\ has_urls = FALSE
    /\ _urls = <<>>
    /\ get_urls_calls = 0
    /\ result = NoCall
    /\ decoration = NoDecoration
    /\ _actions \in DeclaredActions
    /\ threads = NoThreads
    /\ urls_id = 0
    /\ class_routes = routes
    /\ probe = NoProbe

Next ==
    \/ \E prefix \in Prefixes, viewset \in RegisteredViewSets, basename \in Basenames :
           register(prefix, viewset, basename)
    \/ urls

Spec == Init /\ [][Next]_vars

\* The class bodies of viewsets.py have run; methods are being decorated.
InitActions ==
    /\ router_class = "SimpleRouter"
    /\ trailing_slash = s_slash
    /\ registry = <<>>
    /\ has_urls = FALSE
    /\ _urls = <<>>
    /\ get_urls_calls = 0
    /\ result = NoCall
    /\ decoration = NoDecoration
    /\ _actions = NoActions
    /\ threads = NoThreads
    /\ urls_id = 0
    /\ class_routes = routes
    /\ probe = NoProbe

NextActions ==
    \/ \E func \in Funcs, opts \in ActionOptions : decorate(func, opts)
    \/ \E func \in Funcs : decorate_again(func)

SpecActions == InitActions /\ [][NextActions]_vars

\* The registrations are made by one thread before the table is read: the
\* registry the readers find is empty or holds one entry.
StartupRegistries ==
    {<<>>, <<[prefix |-> s_widgets, viewset |-> "SimpleViewSet", basename |-> s_widget]>>}

InitThreads ==
    /\ router_class \in {"BaseRouter", "SimpleRouter"}
    /\ trailing_slash \in (IF router_class = "SimpleRouter" THEN {s_slash, s_empty}
                           ELSE {s_empty})
    /\ registry \in StartupRegistries
    /\ has_urls = FALSE
    /\ _urls = <<>>
    /\ get_urls_calls = 0
    /\ result = NoCall
    /\ decoration = NoDecoration
    /\ _actions = NoActions
    /\ threads = NoThreads
    /\ urls_id = 0
    /\ class_routes = routes
    /\ probe = NoProbe

NextThreads ==
    \E t \in Threads :
        \/ thread_check(t)
        \/ thread_build(t)
        \/ thread_assign(t)
        \/ thread_return(t)

SpecThreads == InitThreads /\ [][NextThreads]_vars

InitBuilder ==
    /\ router_class = "SimpleRouter"
    /\ trailing_slash \in {s_slash, s_empty}
    /\ registry = <<>>
    /\ has_urls = FALSE
    /\ _urls = <<>>
    /\ get_urls_calls = 0
    /\ result = NoCall
    /\ decoration = NoDecoration
    /\ _actions = NoActions
    /\ threads = NoThreads
    /\ urls_id = 0
    /\ class_routes \in {routes, detail_routes}
    /\ probe = NoProbe

NextBuilder ==
    \/ \E viewset \in LookupClasses, lookup_prefix \in LookupPrefixes :
           lookup_step(viewset, lookup_prefix)
    \/ \E prefix \in BuilderPrefixes, viewset \in LookupClasses,
          basename \in BuilderBasenames,
          j \in DOMAIN class_routes :
           route_step(prefix, viewset, basename, j)

SpecBuilder == InitBuilder /\ [][NextBuilder]_vars

\* ------------------------------------------------------------- claims
\* The basename of a viewset can be derived by the router: the router is a
\* SimpleRouter and the viewset has a queryset attribute.
Derivable(viewset) ==
    router_class = "SimpleRouter" /\ attr_owner(viewset, "queryset") # "object"

\* The entry a register call asks for, with the basename it was given.
AskedEntry(call) ==
    [prefix |-> call.args.prefix, viewset |-> call.args.viewset,
     basename |-> call.args.basename]

\* C1: a register call with the basename omitted, on a router that cannot
\* derive it, raises in the call itself; and a register call that raises
\* leaves the registry and the cached route table exactly as they were.
C1_FailedRegisterIsAtomic ==
    [][result'.op = "register" =>
          /\ (result'.args.basename = None /\ ~Derivable(result'.args.viewset))
                => result'.exc # ""
          /\ result'.exc # ""
                => registry' = registry /\ has_urls' = has_urls /\ _urls' = _urls]_vars

\* A register call has failed while a cached route table existed, and the
\* table is still there.
C1_Witness ==
    /\ result.op = "register"
    /\ result.exc = "AssertionError"
    /\ result.args.basename = None
    /\ has_urls

\* C2: on a BaseRouter, register without a basename raises
\* NotImplementedError, register with a basename succeeds, every read of urls
\* calls get_urls and raises NotImplementedError, and no cache is ever stored.
C2_BaseRouterNotImplemented ==
    router_class = "BaseRouter" =>
        /\ ~has_urls
        /\ (result.op = "register" /\ result.args.basename = None)
              => result.exc = "NotImplementedError"
        /\ (result.op = "register" /\ result.args.basename # None)
              => result.exc = "" /\ registry # <<>>
        /\ result.op = "urls" => result.exc = "NotImplementedError" /\ result.built

\* A BaseRouter with a registered entry has been read twice in a row.
C2_Witness ==
    /\ router_class = "BaseRouter"
    /\ registry # <<>>
    /\ result.op = "urls"
    /\ get_urls_calls >= 2

\* C3 as stated: a read that finds a cache returns it without calling
\* get_urls, and get_urls is called at most once between two register calls.
C3_BuilderRunsAtMostOnce ==
    [][/\ (has_urls /\ result'.op = "urls")
            => /\ result'.exc = "" /\ result'.value = _urls /\ ~result'.built
               /\ has_urls' /\ _urls' = _urls
       /\ get_urls_calls' <= 1]_vars

\* C3, amended: once a read of urls has succeeded, the cache stays and
\* get_urls is not called again until the next register call, and every read
\* in between returns the cached sequence; get_urls returns successfully only
\* when no cache exists (a read whose build raises stores nothing, and the
\* next read calls get_urls again).
C3_CachedUntilRegister ==
    [][/\ (has_urls /\ result'.op = "urls")
            => /\ result'.exc = "" /\ result'.value = _urls /\ ~result'.built
               /\ has_urls' /\ _urls' = _urls
               /\ get_urls_calls' = get_urls_calls
       /\ (result'.op = "urls" /\ result'.built /\ result'.exc = "")
            => ~has_urls /\ has_urls' /\ _urls' = result'.value
       /\ (has_urls /\ ~has_urls') => result'.op = "register"]_vars

\* A read has been served from the cache.
C3_Witness ==
    /\ has_urls
    /\ result.op = "urls"
    /\ ~result.built
    /\ result.value = _urls
    /\ get_urls_calls = 1

\* The name and the regex of the list route of a registry entry, as the
\* built-in template gives them.
ListRouteName(entry) == entry.basename \o <<"-", "l", "i", "s", "t">>

ListRouteRegex(entry) == <<"^">> \o entry.prefix \o trailing_slash \o <<"$">>

\* The route of a declared action: a collection action under the prefix, a
\* detail action under the prefix and the lookup group.
ActionRoute(entry, action) ==
    [regex |-> IF action.detail
               THEN <<"^">> \o entry.prefix \o <<"/">>
                    \o get_lookup_regex(entry.viewset, s_empty) \o <<"/">> \o action.url_path
               ELSE <<"^">> \o entry.prefix \o <<"/">> \o action.url_path,
     name |-> entry.basename \o <<"-">> \o action.url_name]

\* The actions of seq with the given detail flag, in declaration order.
RECURSIVE SelectActions(_, _)
SelectActions(seq, detail) ==
    IF seq = <<>> THEN <<>>
    ELSE (IF seq[1].detail = detail THEN <<seq[1]>> ELSE <<>>)
         \o SelectActions(Tail(seq), detail)

\* The route block of one registry entry as the specification describes it:
\* the templates, then the collection actions, then the detail actions.
ClaimedBlock(entry) ==
    LET declared == actions_of(entry.viewset)
        ordered == SelectActions(declared, FALSE) \o SelectActions(declared, TRUE)
    IN  <<[regex |-> ListRouteRegex(entry), name |-> ListRouteName(entry)]>>
        \o [j \in 1..Len(ordered) |-> ActionRoute(entry, ordered[j])]

RECURSIVE ClaimedTable(_)
ClaimedTable(reg) ==
    IF reg = <<>> THEN <<>> ELSE ClaimedBlock(reg[1]) \o ClaimedTable(Tail(reg))

\* The regex and the name of every generated route of a table.
RegexAndName(table) ==
    [i \in 1..Len(table) |-> [regex |-> table[i].regex, name |-> table[i].name]]

\* C4: a successful register leaves no cache, and the read of urls that
\* follows it on a concrete router builds the table again and returns a
\* sequence that includes the list route of the entry just registered.
C4_RegisterThenReadRebuilds ==
    [][/\ (result'.op = "register" /\ result'.exc = "") => ~has_urls'
       /\ (router_class = "SimpleRouter" /\ result.op = "register" /\ result.exc = ""
              /\ result'.op = "urls")
            => /\ result'.built
               /\ result'.exc = ""
               /\ \E i \in DOMAIN result'.value :
                      result'.value[i].name = ListRouteName(registry[Len(registry)])]_vars

\* C5: the registry only grows at its end; a register call with an explicit
\* basename succeeds without calling get_default_basename and appends exactly
\* (prefix, viewset, basename).
C5_ExplicitBasenameAppends ==
    [][/\ Len(registry) <= Len(registry')
       /\ SubSeq(registry', 1, Len(registry)) = registry
       /\ (result'.op = "register" /\ result'.args.basename # None)
            => /\ result'.exc = ""
               /\ ~result'.derived
               /\ registry' = Append(registry, AskedEntry(result'))]_vars

\* A second entry has been registered with an explicit basename, for a
\* viewset whose basename the router could not have derived.
C5_Witness ==
    /\ result.op = "register"
    /\ result.args.basename # None
    /\ ~Derivable(result.args.viewset)
    /\ Len(registry) >= 2
    /\ registry[Len(registry)] = AskedEntry(result)

\* C6: on a concrete router, a read of urls returns the concatenation, in
\* registration order, of the route block of every registry entry.
C6_TableIsConcatenationOfBlocks ==
    (router_class = "SimpleRouter" /\ result.op = "urls")
        => /\ result.exc = ""
           /\ RegexAndName(result.value) = ClaimedTable(registry)

\* C7: the route block of one registered viewset holds one route per
\* template and one per declared action: the templates, then the collection
\* actions, then the detail actions.  With prefix 'widgets', basename
\* 'widget' and one detail action 'activate' the block is the list route
\* named 'widget-list' followed by a route named 'widget-activate'.
C7_BlockHoldsTemplatesThenActions ==
    (router_class = "SimpleRouter" /\ result.op = "urls" /\ Len(registry) = 1)
        => /\ result.exc = ""
           /\ Len(result.value) = Len(routes) + Len(actions_of(registry[1].viewset))
           /\ RegexAndName(result.value) = ClaimedBlock(registry[1])
           /\ (registry[1].prefix = s_widgets /\ registry[1].basename = s_widget
                  /\ Len(actions_of(registry[1].viewset)) = 1)
                => /\ result.value[1].name = s_widget \o <<"-">> \o <<"l", "i", "s", "t">>
                   /\ result.value[2].name = s_widget \o <<"-">> \o s_activate
                   /\ result.value[2].regex =
                          <<"^">> \o s_widgets \o <<"/", "(", "?", "P", "<">> \o s_pk
                          \o <<">", "[", "^", "/", ".", "]", "+", ")", "/">> \o s_activate

\* C8: when two different entries of one viewset are registered, a read of
\* urls returns a route set for each, and no two routes of the table carry
\* the same name.
C8_DistinctRegistrationsDistinctNames ==
    (router_class = "SimpleRouter" /\ result.op = "urls" /\ Len(registry) = 2
         /\ registry[1] # registry[2] /\ registry[1].viewset = registry[2].viewset
         /\ registry[1].basename # registry[2].basename)
        => /\ result.exc = ""
           /\ \A e \in {registry[1], registry[2]} :
                  \E i \in DOMAIN result.value : result.value[i].name = ListRouteName(e)
           /\ \A i, j \in DOMAIN result.value :
                  result.value[i].name = result.value[j].name => i = j

\* C9: a decoration that succeeds appends the descriptor to the action list
\* of the class of the decorated method, and no decoration changes the action
\* list of any other class.
C9_ActionListPerClass ==
    [][decoration'.op = "action" =>
          /\ decoration'.exc = ""
                => list_of(_actions', decoration'.func.cls) =
                       Append(list_of(_actions, decoration'.func.cls),
                              descriptor(decoration'.func, decoration'.opts))
          /\ \A other \in ViewSetClasses \ {decoration'.func.cls} :
                 list_of(_actions', other) = list_of(_actions, other)]_vars

\* No two descriptors of a list share a handler name or a url name.
UniqueNames(actions) ==
    \A i, j \in DOMAIN actions :
        (actions[i].name = actions[j].name \/ actions[i].url_name = actions[j].url_name)
            => i = j

\* A descriptor collides with one of the list.
Collides(d, actions) ==
    \E i \in DOMAIN actions :
        actions[i].name = d.name \/ actions[i].url_name = d.url_name

\* C10: decorating a method whose handler name or url name is already in the
\* action list of its class raises at decoration time and adds nothing, and
\* no action list ever holds two descriptors with the same handler name or
\* the same url name.
C10_UniqueActionNames ==
    [][/\ \A owner \in ActionListOwners : UniqueNames(_actions'[owner])
       /\ (decoration'.op = "action"
              /\ Collides(descriptor(decoration'.func, decoration'.opts),
                          list_of(_actions, decoration'.func.cls)))
            => decoration'.exc # "" /\ _actions' = _actions]_vars

\* C11: when several threads read urls while no cache exists, get_urls
\* returns a table to at most one of them, and all the readers that have
\* returned were given the same list.
C11_OneBuildForAllReaders ==
    /\ Cardinality({t \in Threads : threads[t].built}) <= 1
    /\ \A t, u \in Threads :
           (threads[t].pc = "done" /\ threads[u].pc = "done")
               => threads[t].ret = threads[u].ret

\* The handler names the dispatch reserves: those of the HTTP verbs.
ReservedHandlerNames == {s_get}

HasReservedAction(viewset) ==
    \E i \in DOMAIN actions_of(viewset) :
        actions_of(viewset)[i].name \in ReservedHandlerNames

\* C12: a viewset with a declared action whose handler name is a reserved
\* dispatch slot is rejected by register: no register call for it returns
\* without raising, and it never becomes an entry of the registry.
C12_ReservedActionRejectedByRegister ==
    /\ \A i \in DOMAIN registry : ~HasReservedAction(registry[i].viewset)
    /\ (result.op = "register" /\ HasReservedAction(result.args.viewset))
           => result.exc # ""

\* C13: a request to a generated route is dispatched by the view that
\* viewset.as_view(mapping, **initkwargs) returns, HEAD to the handler bound
\* to GET, an unbound verb to MethodNotAllowed.  So every registered viewset
\* has a dispatcher to give (as_view resolves to a class of viewsets.py), and
\* a read of urls on a simple router with registered viewsets returns their
\* routes.
C13_RegisteredViewSetsDispatch ==
    /\ \A i \in DOMAIN registry : attr_owner(registry[i].viewset, "as_view") # "object"
    /\ (result.op = "urls" /\ router_class = "SimpleRouter" /\ registry # <<>>)
           => (result.exc = "" /\ result.value # <<>>)

\* The url template of a route with its three fields filled in.
Formatted(prefix, lookup, slash, url) ==
    str_format(url, [k \in {"{prefix}", "{lookup}", "{trailing_slash}"} |->
                        CASE k = "{prefix}" -> prefix
                          [] k = "{lookup}" -> lookup
                          [] OTHER -> slash])

BeginsWithSlash(regex) == Len(regex) >= 2 /\ regex[1] = "^" /\ regex[2] = "/"

LookupKey(viewset) ==
    CASE viewset = "SlugViewSet" -> s_slug
      [] viewset = "EmptyKwargViewSet" -> s_slug
      [] viewset = "KwargViewSet" -> s_id
      [] OTHER -> s_pk

LookupValue(viewset) ==
    IF viewset = "KwargViewSet" THEN s_digits ELSE <<"[", "^", "/", ".", "]", "+">>

\* C15: get_lookup_regex returns '(?P<' + lookup_prefix + K + '>' + V + ')',
\* K the lookup_url_kwarg when set and non-empty and the lookup_field (by
\* default 'pk') otherwise, V the lookup_value_regex (by default '[^/.]+');
\* with no attribute set and an empty prefix that is '(?P<pk>[^/.]+)'.
C15_LookupRegexIsTotal ==
    probe.fn = "get_lookup_regex" =>
        LET a == probe.args
        IN  /\ probe.out = <<"(", "?", "P", "<">> \o a.lookup_prefix
                               \o LookupKey(a.viewset) \o <<">">>
                               \o LookupValue(a.viewset) \o <<")">>
            /\ (a.viewset = "PlainView" /\ a.lookup_prefix = <<>>) =>
                   probe.out = <<"(", "?", "P", "<", "p", "k", ">",
                                 "[", "^", "/", ".", "]", "+", ")">>

\* The regex was asked for a class with a lookup_url_kwarg of its own and a
\* lookup prefix.
C15_Witness ==
    /\ probe.fn = "get_lookup_regex"
    /\ probe.args.viewset = "KwargViewSet"
    /\ probe.args.lookup_prefix = s_nested
    /\ probe.out = <<"(", "?", "P", "<", "n", "_", "i", "d", ">",
                     "[", "0", "-", "9", "]", "+", ")">>

C17_CacheMatchesRegistry ==
    /\ has_urls => get_urls = Return(_urls)
    /\ (result.op = "urls" /\ result.exc = "") => get_urls = Return(result.value)

\* A read has built and stored the table of the current registry.
C17_Witness ==
    /\ has_urls
    /\ result.op = "urls"
    /\ result.built
    /\ get_urls = Return(_urls)

\* C18: a read of urls whose build raises passes the exception on, stores
\* no cache and leaves the registry as it was; the read that follows it
\* calls get_urls again.
C18_FailedBuildStoresNothing ==
    [][/\ (result'.op = "urls" /\ result'.exc # "")
            => /\ result'.built
               /\ ~has_urls'
               /\ has_urls' = has_urls /\ _urls' = _urls /\ registry' = registry
       /\ (result.op = "urls" /\ result.exc # "" /\ result'.op = "urls")
            => result'.built]_vars

\* Two reads in a row have both called get_urls, and both have raised.
C18_Witness ==
    /\ result.op = "urls"
    /\ result.exc # ""
    /\ result.built
    /\ get_urls_calls = 2
    /\ ~has_urls

\* C16: the description of every declared action is the doc string of its
\* handler, whatever description the caller passed, and the name of an
\* action just declared is the one the caller passed, or, when the caller
\* passed none, the one made from the handler's name.
C16_DescriptionIsDocString ==
    /\ \A owner \in ActionListOwners : \A i \in DOMAIN _actions[owner] :
           _actions[owner][i].kwargs.description = _actions[owner][i].doc
    /\ (decoration.op = "action" /\ decoration.exc = "")
           => LET list == list_of(_actions, decoration.func.cls)
              IN  list[Len(list)].kwargs.name =
                     IF "name" \in DOMAIN decoration.opts.kwargs
                     THEN decoration.opts.kwargs.name
                     ELSE pretty_name(decoration.func.name)

====
